---- MODULE Spec2Model ----
(***************************************************************************)
(* Model of the well-metadata updater (src/wm2_gui.py; src/wm_gui.py holds *)
(* the same logic with a different widget theme).                          *)
(*                                                                         *)
(* The store is the Access table; a row is a function from the column      *)
(* names of TABLE_COLUMNS to values.  A value is a string, or NULL (SQL    *)
(* NULL, Python None).  The application state is held by the App object:   *)
(* the loaded snapshot, the existing-rows view (the Treeview), the checked *)
(* set, the pending edits and the Staging Registry (new_ids,               *)
(* _staged_pairs, and the widgets of the Add New tab).                     *)
(***************************************************************************)
EXTENDS Integers, Sequences, FiniteSets, TLC

(***************************************************************************)
(* Bounds of the model.                                                    *)
(***************************************************************************)
\* rows of the store before the first action
MaxInitRows == 2
\* rows the store may grow to (inserts are not offered beyond it)
MaxRows == 3
\* user actions in one session of the tool
MaxActions == 4

(***************************************************************************)
(* Values.                                                                 *)
(***************************************************************************)
NULL == "NULL"

\* Python truthiness of an optional string
Truthy(v) == v # NULL /\ v # ""

\* str(v or "")
StrOrEmpty(v) == IF Truthy(v) THEN v ELSE ""

\* v or None
OrNone(v) == IF Truthy(v) THEN v ELSE NULL

\* the whitespace characters of the model's strings
Whitespace == {" "}

\* str.lstrip: drop the leading whitespace
RECURSIVE LStrip(_)
LStrip(s) ==
  IF s = "" THEN s
  ELSE IF Head(s) \in Whitespace THEN LStrip(Tail(s))
  ELSE s

\* str.rstrip: drop the trailing whitespace
RECURSIVE RStrip(_)
RStrip(s) ==
  IF s = "" THEN s
  ELSE IF SubSeq(s, Len(s), Len(s)) \in Whitespace THEN RStrip(SubSeq(s, 1, Len(s) - 1))
  ELSE s

\* str.strip
Strip(s) == RStrip(LStrip(s))

\* tkinter turns every cell value into str(value): None is shown as "None"
\* (ttk._stringify), and Treeview.set gives that string back.
TkStr(v) == IF v = NULL THEN "None" ELSE v

(***************************************************************************)
(* CONFIG                                                                  *)
(***************************************************************************)
AUTONUMBER_FIELD == "ID"

TABLE_COLUMNS ==
  << "ID", "GasIDREC", "PressuresIDREC", "Well Name", "Formation Producer",
     "Layer Producer", "Fault Block", "Pad Name", "Completions Technology",
     "Lateral Length", "Value Navigator UWI", "Composite name" >>

DROPDOWN_FIELDS ==
  {"Formation Producer", "Layer Producer", "Fault Block", "Completions Technology"}

ENTRY_FIELDS == {"Well Name", "Lateral Length", "Value Navigator UWI", "Pad Name"}

EDITABLE_FIELDS == ENTRY_FIELDS \cup DROPDOWN_FIELDS

Range(s) == {s[i] : i \in DOMAIN s}

Columns == Range(TABLE_COLUMNS)

(***************************************************************************)
(* Pure functions of the data access layer.                                *)
(***************************************************************************)
\* a variant of compose_name that joins the inputs as they were given
compose_name_Untrimmed(well, layer, tech) ==
  LET w == Strip(StrOrEmpty(well))
      l == Strip(StrOrEmpty(layer))
      t == Strip(StrOrEmpty(tech))
  IN  IF ~(w # "" /\ l # "" /\ t # "") THEN NULL
      ELSE StrOrEmpty(well) \o " - " \o StrOrEmpty(layer) \o " - " \o StrOrEmpty(tech)

\* compose_name: "Well - Layer - Tech" if all three are present, else None
compose_name(well, layer, tech) ==
  LET w == Strip(StrOrEmpty(well))
      l == Strip(StrOrEmpty(layer))
      t == Strip(StrOrEmpty(tech))
  IN  IF ~(w # "" /\ l # "" /\ t # "") THEN NULL
      ELSE w \o " - " \o l \o " - " \o t

\* a variant of the query that matches either column when both are given
FindMatches_EitherColumn(rows, gas_id, pres_id) ==
  {i \in DOMAIN rows :
     \/ Truthy(gas_id) /\ rows[i]["GasIDREC"] = gas_id
     \/ Truthy(pres_id) /\ rows[i]["PressuresIDREC"] = pres_id}

\* the rows find_existing_id's query selects; SQL "=" never matches a NULL
FindMatches(rows, gas_id, pres_id) ==
  IF Truthy(gas_id) /\ Truthy(pres_id)
  THEN {i \in DOMAIN rows : rows[i]["GasIDREC"] = gas_id
                            /\ rows[i]["PressuresIDREC"] = pres_id}
  ELSE IF Truthy(gas_id)
  THEN {i \in DOMAIN rows : rows[i]["GasIDREC"] = gas_id}
  ELSE IF Truthy(pres_id)
  THEN {i \in DOMAIN rows : rows[i]["PressuresIDREC"] = pres_id}
  ELSE {}

\* find_existing_id returns the ID of the first row the query yields, None
\* (0 here) without a row.  The query has no ORDER BY, so which matching row
\* comes first is the store's choice: every matching ID is a possible result.
find_existing_id(rows, gas_id, pres_id) ==
  IF FindMatches(rows, gas_id, pres_id) = {} THEN {0}
  ELSE {rows[i]["ID"] : i \in FindMatches(rows, gas_id, pres_id)}

\* a variant of UpdatableCols in which an UPDATE sets the well name alone
UpdatableCols_WellNameOnly == {"Well Name"}

\* a variant of UpdatableCols that strips only the AutoNumber column
UpdatableCols_KeepsIdentifiers == Columns \ {AUTONUMBER_FIELD}

\* the columns update_record may write
UpdatableCols == Columns \ {AUTONUMBER_FIELD, "GasIDREC", "PressuresIDREC"}

\* a variant of update_record that replaces the row by a new one, which the
\* store numbers anew
update_record_NewId(rows, rec_id, payload) ==
  IF (DOMAIN payload) \cap UpdatableCols = {} THEN rows
  ELSE [i \in DOMAIN rows |->
          IF rows[i]["ID"] # rec_id THEN rows[i]
          ELSE [c \in Columns |->
                  IF c = AUTONUMBER_FIELD THEN Len(rows) + 1
                  ELSE IF c \in UpdatableCols /\ c \in DOMAIN payload
                  THEN payload[c] ELSE rows[i][c]]]

\* a variant of update_record whose UPDATE has no WHERE clause
update_record_EveryRow(rows, rec_id, payload) ==
  IF (DOMAIN payload) \cap UpdatableCols = {} THEN rows
  ELSE [i \in DOMAIN rows |->
          [c \in Columns |->
             IF c \in UpdatableCols /\ c \in DOMAIN payload
             THEN payload[c] ELSE rows[i][c]]]

\* update_record: UPDATE ... SET the payload's updatable columns WHERE ID = rec_id
update_record(rows, rec_id, payload) ==
  IF (DOMAIN payload) \cap UpdatableCols = {} THEN rows
  ELSE [i \in DOMAIN rows |->
          IF rows[i]["ID"] # rec_id THEN rows[i]
          ELSE [c \in Columns |->
                  IF c \in UpdatableCols /\ c \in DOMAIN payload
                  THEN payload[c] ELSE rows[i][c]]]

\* the row an INSERT of insert_records adds: every column but ID from the
\* payload (row.get(c, None)), ID assigned by the store (AutoNumber)
InsertedRow(rows, payload) ==
  [c \in Columns |->
     IF c = AUTONUMBER_FIELD THEN Len(rows) + 1
     ELSE IF c \in DOMAIN payload THEN payload[c] ELSE NULL]

\* insert_records' executemany over the first n rows of the batch
RECURSIVE InsertFirst(_, _, _)
InsertFirst(rows, batch, n) ==
  IF n = 0 THEN rows
  ELSE LET before == InsertFirst(rows, batch, n - 1)
       IN  Append(before, InsertedRow(before, batch[n]))

\* get_unique_options: the distinct trimmed non-blank values of a column
get_unique_options(df, col) ==
  {Strip(df[i][col]) : i \in {j \in DOMAIN df : df[j][col] # NULL}} \ {""}

\* mask_pending of reload_all: blank or NULL Well Name
IsPending(row) == row["Well Name"] = NULL \/ Strip(row["Well Name"]) = ""


(***************************************************************************)
(* Inputs: the stores the tool may be opened on, and what the user types.  *)
(***************************************************************************)
BlankRow ==
  [c \in Columns |-> IF c = AUTONUMBER_FIELD THEN 0 ELSE NULL]

\* a complete row created by an earlier session
CompleteRow(gas, pres, well, layer, tech) ==
  [BlankRow EXCEPT !["GasIDREC"] = gas, !["PressuresIDREC"] = pres,
                   !["Well Name"] = well, !["Layer Producer"] = layer,
                   !["Completions Technology"] = tech,
                   !["Composite name"] = compose_name(well, layer, tech)]

\* a pending row created externally: an identifier pair and no well name
PendingRow(gas, pres) ==
  [BlankRow EXCEPT !["GasIDREC"] = gas, !["PressuresIDREC"] = pres]

\* the rows a store may hold before the first action: a complete row, a
\* pending row with a full pair, and pending rows whose pressure id is blank
\* (an empty string, or NULL)
InitRowShapes ==
  << CompleteRow("G1", "P1", "W1", "L1", "T1"),
     PendingRow("G2", "P2"),
     PendingRow("G1", ""),
     PendingRow("G1", NULL),
     PendingRow("G2", NULL) >>

\* the elements of a sequence at the indices S, in ascending order
RECURSIVE Pick(_, _)
Pick(seq, S) ==
  IF S = {} THEN << >>
  ELSE LET m == CHOOSE x \in S : \A y \in S : x <= y
       IN  << seq[m] >> \o Pick(seq, S \ {m})

\* the store numbers its rows 1, 2, ... (AutoNumber)
Numbered(shapes) ==
  [i \in DOMAIN shapes |-> [shapes[i] EXCEPT ![AUTONUMBER_FIELD] = i]]

InitStores ==
  {Numbered(Pick(InitRowShapes, S)) :
     S \in {T \in SUBSET (DOMAIN InitRowShapes) :
              Cardinality(T) >= 1 /\ Cardinality(T) <= MaxInitRows}}

\* the columns of the existing-rows view the user double-clicks
EditInputCols == {"Well Name", "Layer Producer", "Pad Name", "GasIDREC"}

\* what the user may type into an Entry of a column
EntryInputs(col) ==
  CASE col = "Well Name" -> {"", "W1", "W2"}
    [] OTHER -> {""}

(***************************************************************************)
(* State.                                                                  *)
(***************************************************************************)
VARIABLES
  db,               \* the committed rows of the Access table, by ID ascending
  df_current,       \* App.df_current: the snapshot of the last successful load
  tree,             \* App.tree: item id -> cell strings of the existing-rows view
  checked,          \* App._checked
  pending_edits,    \* App._pending_edits, in insertion order: <<iid, edits>>
  pending_row_ids,  \* App._pending_row_ids
  new_ids,          \* App.new_ids: the Staged Entries, in insertion order
  staged_pairs,     \* App._staged_pairs: the promoted set
  new_widgets,      \* App.new_widgets: the widgets of the Add New tab
  last,             \* what the last action did (history, for the properties)
  actions           \* the number of user actions so far

vars ==
  << db, df_current, tree, checked, pending_edits, pending_row_ids,
     new_ids, staged_pairs, new_widgets, last, actions >>

view_vars == << df_current, tree, checked, pending_edits, pending_row_ids >>

Done(op, status) == [op |-> op, status |-> status, rows |-> << >>, log |-> << >>]

\* (str(rec.get("GasIDREC") or ""), str(rec.get("PressuresIDREC") or ""))
PairOf(rec) == << StrOrEmpty(rec["GasIDREC"]), StrOrEmpty(rec["PressuresIDREC"]) >>

(***************************************************************************)
(* reload_all and build_add_rows.                                          *)
(***************************************************************************)
\* the Treeview item of a row: "Select" unticked, every cell as tkinter shows it
TreeItem(row) ==
  [c \in Columns \cup {"Select"} |->
     IF c = "Select" THEN "off"
     ELSE IF c = AUTONUMBER_FIELD THEN row[c]
     ELSE TkStr(row[c])]

\* the items reload_all inserts: one per row, iid = str(row["ID"])
TreeOf(df) ==
  [iid \in {df[i]["ID"] : i \in DOMAIN df} |->
     TreeItem(df[CHOOSE i \in DOMAIN df : df[i]["ID"] = iid])]

PendingIdsOf(df) == {df[i]["ID"] : i \in {j \in DOMAIN df : IsPending(df[j])}}

\* one row of widgets of build_add_rows: ticked, every field blank
BlankWidget(rec) ==
  [selected |-> TRUE,
   gas |-> rec["GasIDREC"],
   pres |-> rec["PressuresIDREC"],
   vals |-> [c \in EDITABLE_FIELDS |-> ""],
   comp_var |-> StrOrEmpty(compose_name("", "", ""))]

build_add_rows(ids) == [i \in DOMAIN ids |-> BlankWidget(ids[i])]

\* a variant of the view refresh that keeps the checked rows and their
\* pending edits over a load
ReloadView_KeepsEdits(ok) ==
  IF ok
  THEN /\ df_current' = db'
       /\ tree' = TreeOf(db')
       /\ pending_row_ids' = PendingIdsOf(db')
       /\ UNCHANGED << checked, pending_edits >>
  ELSE UNCHANGED view_vars

\* a variant of the view refresh that empties the view when the load fails
ReloadView_ClearsOnError(ok) ==
  IF ok
  THEN /\ df_current' = db'
       /\ tree' = TreeOf(db')
       /\ checked' = {}
       /\ pending_edits' = << >>
       /\ pending_row_ids' = PendingIdsOf(db')
  ELSE /\ df_current' = << >>
       /\ tree' = TreeOf(<< >>)
       /\ checked' = {}
       /\ pending_edits' = << >>
       /\ pending_row_ids' = {}

\* reload_all after do_update / save_checked_edits / the Reload button:
\* `ok` is whether load_access_table succeeds
ReloadView(ok) ==
  IF ok
  THEN /\ df_current' = db'
       /\ tree' = TreeOf(db')
       /\ checked' = {}
       /\ pending_edits' = << >>
       /\ pending_row_ids' = PendingIdsOf(db')
  ELSE UNCHANGED view_vars

\* a variant of reload_all that rebuilds the registry from nothing on a load
reload_all_ResetsRegistry(ok) ==
  /\ UNCHANGED db
  /\ new_ids' = IF ok THEN << >> ELSE new_ids
  /\ staged_pairs' = IF ok THEN {} ELSE staged_pairs
  /\ ReloadView(ok)
  /\ new_widgets' = IF ok THEN build_add_rows(new_ids') ELSE new_widgets
  /\ last' = Done("reload", IF ok THEN "loaded" ELSE "load_error")

reload_all(ok) ==
  /\ UNCHANGED << db, new_ids, staged_pairs >>
  /\ ReloadView(ok)
  /\ new_widgets' = IF ok THEN build_add_rows(new_ids) ELSE new_widgets
  /\ last' = Done("reload", IF ok THEN "loaded" ELSE "load_error")

(***************************************************************************)
(* App.__init__: empty caches, then the initial load (of a store that can  *)
(* be read; a failing load is the Reload action's other outcome).          *)
(***************************************************************************)
Init ==
  /\ db \in InitStores
  /\ df_current = db
  /\ tree = TreeOf(db)
  /\ pending_row_ids = PendingIdsOf(db)
  /\ last = Done("init", "loaded")
  /\ checked = {}
  /\ pending_edits = << >>
  /\ new_ids = << >>
  /\ staged_pairs = {}
  /\ new_widgets = << >>
  /\ actions = 0

\* every handler is one user action of the session
Tick == actions < MaxActions /\ actions' = actions + 1

(***************************************************************************)
(* _toggle_item_checkbox (on_tree_click in the Select column).             *)
(***************************************************************************)
\* the Staged Entry the handler appends
StagedEntry(pair) == [GasIDREC |-> pair[1], PressuresIDREC |-> pair[2]]

\* a variant of MustStage without the `pair not in self._staged_pairs` test
MustStage_Always(pair, staged) == TRUE

\* whether the handler stages the pair
MustStage(pair, staged) == pair \notin staged

toggle_item_checkbox(item) ==
  /\ item \in DOMAIN tree
  /\ LET new == IF tree[item]["Select"] # "on" THEN "on" ELSE "off"
         pair == << StrOrEmpty(tree[item]["GasIDREC"]),
                    StrOrEmpty(tree[item]["PressuresIDREC"]) >>
     IN  IF item \in pending_row_ids /\ new # "on"
         THEN \* unticking a pending row only redraws its Select cell
              /\ tree' = [tree EXCEPT ![item]["Select"] = new]
              /\ last' = Done("check", new)
              /\ UNCHANGED << db, df_current, checked, pending_edits, pending_row_ids,
                              new_ids, staged_pairs, new_widgets >>
         ELSE IF item \in pending_row_ids
         THEN \* a pending row is staged to Add New and leaves the view
              /\ IF MustStage(pair, staged_pairs)
                 THEN /\ staged_pairs' = staged_pairs \cup {pair}
                      /\ new_ids' = Append(new_ids, StagedEntry(pair))
                      /\ new_widgets' = build_add_rows(new_ids')
                      /\ last' = Done("stage", "staged")
                 ELSE /\ UNCHANGED << staged_pairs, new_ids, new_widgets >>
                      /\ last' = Done("stage", "already_staged")
              /\ tree' = [i \in (DOMAIN tree) \ {item} |-> tree[i]]
              /\ pending_row_ids' = pending_row_ids \ {item}
              /\ UNCHANGED << db, df_current, checked, pending_edits >>
         ELSE \* a complete row: maintain the checked set
              /\ tree' = [tree EXCEPT ![item]["Select"] = new]
              /\ checked' = IF new = "on" THEN checked \cup {item}
                            ELSE checked \ {item}
              /\ last' = Done("check", new)
              /\ UNCHANGED << db, df_current, pending_edits, pending_row_ids,
                              new_ids, staged_pairs, new_widgets >>

(***************************************************************************)
(* The widgets of the Add New tab.                                         *)
(***************************************************************************)
\* _sync: the composite label follows Well Name, Layer and Technology
Sync(w) ==
  [w EXCEPT !.comp_var =
     StrOrEmpty(compose_name(w.vals["Well Name"], w.vals["Layer Producer"],
                             w.vals["Completions Technology"]))]

\* the user types into an Entry, or picks from a read-only Combobox whose
\* choices are dropdown_options (the unique values of the loaded snapshot)
WidgetInputs(col) ==
  IF col \in DROPDOWN_FIELDS THEN get_unique_options(df_current, col)
  ELSE EntryInputs(col)

\* the well names the user types into a staged entry
StagedNames == {"", "W1"}

\* the user fills in row i of the tab: Well Name typed, Layer and Technology
\* picked; _sync runs on every write and leaves the label composed from the
\* final values
set_widget_values(i, wn, lp, ct) ==
  /\ i \in DOMAIN new_widgets
  /\ wn \in StagedNames \cup {new_widgets[i].vals["Well Name"]}
  /\ lp \in WidgetInputs("Layer Producer") \cup {new_widgets[i].vals["Layer Producer"]}
  /\ ct \in WidgetInputs("Completions Technology")
            \cup {new_widgets[i].vals["Completions Technology"]}
  /\ LET vals == [new_widgets[i].vals EXCEPT !["Well Name"] = wn,
                                             !["Layer Producer"] = lp,
                                             !["Completions Technology"] = ct]
     IN  /\ vals # new_widgets[i].vals
         /\ new_widgets' = [new_widgets EXCEPT ![i] = Sync([@ EXCEPT !.vals = vals])]
  /\ last' = Done("fill", "typed")
  /\ UNCHANGED << db, df_current, tree, checked, pending_edits,
                  pending_row_ids, new_ids, staged_pairs >>

\* the user clicks the row's Checkbutton
toggle_selected(i) ==
  /\ i \in DOMAIN new_widgets
  /\ new_widgets' = [new_widgets EXCEPT ![i].selected = ~@]
  /\ last' = Done("select", "toggled")
  /\ UNCHANGED << db, df_current, tree, checked, pending_edits,
                  pending_row_ids, new_ids, staged_pairs >>

(***************************************************************************)
(* do_update: apply the selected staged rows.                              *)
(***************************************************************************)
\* a variant of Payload that passes the text of a blank field on as it is
Payload_KeepsEmpty(w) ==
  [c \in (Columns \ {AUTONUMBER_FIELD}) |->
     IF c = "GasIDREC" THEN w.gas
     ELSE IF c = "PressuresIDREC" THEN w.pres
     ELSE IF c = "Composite name" THEN w.comp_var
     ELSE Strip(w.vals[c])]

\* the payload do_update builds from one row of widgets
Payload(w) ==
  [c \in (Columns \ {AUTONUMBER_FIELD}) |->
     IF c = "GasIDREC" THEN w.gas
     ELSE IF c = "PressuresIDREC" THEN w.pres
     ELSE IF c = "Composite name" THEN OrNone(w.comp_var)
     ELSE OrNone(Strip(w.vals[c]))]

\* rows: the payloads of the ticked widgets, in the order of the tab
SelectedRows(widgets) ==
  Pick([i \in DOMAIN widgets |-> Payload(widgets[i])],
       {i \in DOMAIN widgets : widgets[i].selected})

\* SELECT COUNT(1) FROM table WHERE [Well Name] = wn
CountWellName(rows, wn) == Cardinality({i \in DOMAIN rows : rows[i]["Well Name"] = wn})

\* the store operation that raises in this run of the handler, if any:
\* <<step, row>>; pyodbc raises from connect, execute, executemany and commit
Faults(n) ==
  {<<"none", 0>>, <<"connect", 0>>, <<"commit", 0>>}
  \cup {<<k, i>> : k \in {"dup_query", "lookup", "update", "insert"}, i \in 1..n}

\* an entry of the handler's log: a store call, a prompt ("ask") or an error
\* dialog ("error"), for a row of the action
Event(ev, row, arg) == [ev |-> ev, row |-> row, arg |-> arg]

RowResult(pair, outcome, rec_id) == [pair |-> pair, outcome |-> outcome, rec_id |-> rec_id]

\* the log entry of the reload_all that closes a completed action: 1 when
\* its load succeeds, 0 when it fails
Reloaded(ok) == Event("reload", 0, IF ok THEN 1 ELSE 0)

\* the handler's locals when the connection is open
StartUpdate(rows) ==
  [status |-> "running",
   tx |-> db,                 \* what the connection sees (uncommitted included)
   committed |-> db,          \* what the last commit made durable
   updated |-> 0, inserted |-> 0, skipped |-> 0,
   processed_ok_pairs |-> << >>,
   to_insert |-> << >>,       \* indices into rows
   rows |-> [i \in DOMAIN rows |->
               RowResult(PairOf(rows[i]), "None", 0)],
   log |-> << Event("connect", 0, 0) >>]

\* a variant of IsUpdate in which a duplicate well name forces an insert
IsUpdate_UnlessDuplicateName(rec_id, found_name) == rec_id # 0 /\ ~found_name

\* whether the row is applied as an Update (the `if rec_id:` of the loop)
IsUpdate(rec_id, found_name) == rec_id # 0

\* a variant of Skips that carries on whatever the answer is
Skips_Never(dup, answer) == FALSE

\* whether the row is skipped: the name exists and askyesno returned False
Skips(dup, answer) == dup /\ ~answer

\* one pass of `for r in rows` for row i; ans[i] is the user's answer to the
\* duplicate-name prompt, pick[i] the ID find_existing_id returns
ProcessRow(st, i, r, ans, pick, fault) ==
  LET wn == r["Well Name"]
      queried == Truthy(wn)
      dup == queried /\ CountWellName(st.tx, wn) > 0
      pair == PairOf(r)
      log1 == IF queried THEN Append(st.log, Event("dup_query", i, 0)) ELSE st.log
      log2 == IF dup THEN Append(log1, Event("ask", i, IF ans[i] THEN 1 ELSE 0)) ELSE log1
      log3 == Append(log2, Event("lookup", i, pick[i]))
  IN  IF queried /\ fault = <<"dup_query", i>>
      THEN [st EXCEPT !.status = "raised", !.log = log1]
      ELSE IF Skips(dup, ans[i])
      THEN [st EXCEPT !.skipped = @ + 1, !.log = log2,
                      !.rows[i].outcome = "Skipped"]
      ELSE IF fault = <<"lookup", i>>
      THEN [st EXCEPT !.status = "raised", !.log = log3]
      ELSE IF IsUpdate(pick[i], dup)
      THEN IF fault = <<"update", i>>
           THEN [st EXCEPT !.status = "update_failed",
                           !.log = log3 \o << Event("update", i, pick[i]),
                                              Event("error", i, pick[i]) >>,
                           !.rows[i].outcome = "Failed",
                           !.rows[i].rec_id = pick[i]]
           ELSE [st EXCEPT !.tx = update_record(st.tx, pick[i], r),
                           !.updated = @ + 1,
                           !.processed_ok_pairs = Append(@, pair),
                           !.log = Append(log3, Event("update", i, pick[i])),
                           !.rows[i].outcome = "Updated",
                           !.rows[i].rec_id = pick[i]]
      ELSE [st EXCEPT !.to_insert = Append(@, i), !.log = log3,
                      !.rows[i].outcome = "Batched"]

\* a variant of ProcessRows that classifies one row and goes on to the insert
ProcessRows_FirstOnly(st, i, rows, ans, pick, fault) ==
  IF i > Len(rows) \/ st.status # "running" THEN st
  ELSE ProcessRow(st, i, rows[i], ans, pick, fault)

\* `for r in rows`: the rows in order, until one ends the handler
RECURSIVE ProcessRows(_, _, _, _, _, _)
ProcessRows(st, i, rows, ans, pick, fault) ==
  IF i > Len(rows) \/ st.status # "running" THEN st
  ELSE ProcessRows(ProcessRow(st, i, rows[i], ans, pick, fault),
                   i + 1, rows, ans, pick, fault)

\* `if to_insert:` insert_records (executemany, then commit)
InsertBatch(st, rows, fault) ==
  LET n == Len(st.to_insert)
      batch == [k \in 1..n |-> rows[st.to_insert[k]]]
      inbatch == {st.to_insert[k] : k \in 1..n}
      failed == fault[1] = "insert" /\ fault[2] <= n
  IN  IF st.status # "running" \/ n = 0 THEN st
      ELSE IF failed
      THEN \* the rows before the failing one are already executed
           [st EXCEPT !.status = "insert_failed",
                      !.tx = InsertFirst(st.tx, batch, fault[2] - 1),
                      !.log = @ \o << Event("insert", n, fault[2]),
                                       Event("error", 0, 0) >>,
                      !.rows = [i \in DOMAIN @ |->
                                  IF i \in inbatch
                                  THEN [@[i] EXCEPT !.outcome = "Failed"]
                                  ELSE @[i]]]
      ELSE LET tx2 == InsertFirst(st.tx, batch, n)
           IN [st EXCEPT !.tx = tx2,
                         !.committed = tx2,
                         !.inserted = @ + n,
                         !.processed_ok_pairs =
                            @ \o [k \in 1..n |-> PairOf(batch[k])],
                         !.log = @ \o << Event("insert", n, 0), Event("commit", 0, 0) >>,
                         !.rows = [i \in DOMAIN @ |->
                                     IF i \in inbatch
                                     THEN [@[i] EXCEPT !.outcome = "Inserted",
                                                       !.rec_id = Len(st.tx) +
                                                          (CHOOSE k \in 1..n : st.to_insert[k] = i)]
                                     ELSE @[i]]]

\* the end of the `with` block: the final conn.commit(), and Connection.__exit__,
\* which commits when the block is left without an exception (a `return`
\* included) and rolls back when an exception leaves it.  The log keeps the
\* calls of conn.commit() ("commit") apart from what __exit__ does ("exit":
\* 1 commits, 0 rolls back).
CloseConnection(st, fault) ==
  IF st.status = "raised"
  THEN [st EXCEPT !.tx = st.committed, !.log = Append(@, Event("exit", 0, 0))]
  ELSE IF st.status \in {"update_failed", "insert_failed"}
  THEN [st EXCEPT !.committed = st.tx, !.log = Append(@, Event("exit", 0, 1))]
  ELSE IF fault = <<"commit", 0>>
  THEN [st EXCEPT !.status = "raised", !.tx = st.committed,
                  !.log = Append(@, Event("exit", 0, 0))]
  ELSE [st EXCEPT !.status = "completed", !.committed = st.tx,
                  !.log = @ \o << Event("commit", 0, 0), Event("exit", 0, 1) >>]

RunUpdate(rows, ans, pick, fault) ==
  CloseConnection(
    InsertBatch(ProcessRows(StartUpdate(rows), 1, rows, ans, pick, fault),
                rows, fault),
    fault)

\* a variant of Keep that empties the list after every completed action
Keep_Nothing(ids, processed_set) == << >>

\* a variant of Keep in which do_update prunes the promoted set only
Keep_Everything(ids, processed_set) == ids

\* a variant of Keep that rebuilds the list from its end
Keep_Reversed(ids, processed_set) ==
  LET kept == Pick(ids, {i \in DOMAIN ids : PairOf(ids[i]) \notin processed_set})
  IN  [i \in DOMAIN kept |-> kept[Len(kept) + 1 - i]]

\* the entries do_update keeps in new_ids
Keep(ids, processed_set) ==
  Pick(ids, {i \in DOMAIN ids : PairOf(ids[i]) \notin processed_set})

\* a variant of Discarded in which do_update prunes the entries only
Discarded_Nothing(ids, processed_set) == {}

\* the pairs do_update discards from _staged_pairs
Discarded(ids, processed_set) ==
  {PairOf(ids[i]) : i \in {j \in DOMAIN ids : PairOf(ids[j]) \in processed_set}}

\* the ID find_existing_id may return for each row
PickChoices(rows) ==
  {pick \in [DOMAIN rows -> 0..Len(db)] :
     \A i \in DOMAIN rows :
       pick[i] \in find_existing_id(db, rows[i]["GasIDREC"], rows[i]["PressuresIDREC"])}

\* a variant of ReachesPruning in which the handler goes on after an error
\* dialog
ReachesPruning_AfterFailure(status) ==
  status \in {"completed", "update_failed", "insert_failed"}

\* whether the handler gets past the `with` block to the pruning of the
\* registry: the except blocks `return` after their error dialog
ReachesPruning(status) == status = "completed"

do_update(ans, pick, fault) ==
  LET rows == SelectedRows(new_widgets)
      n == Len(rows)
  IN  IF n = 0
      THEN \* "Nothing selected"
           /\ last' = Done("do_update", "nothing_selected")
           /\ UNCHANGED << db, df_current, tree, checked, pending_edits,
                           pending_row_ids, new_ids, staged_pairs, new_widgets >>
      ELSE IF fault = <<"connect", 0>>
      THEN \* connect_access raises before anything is read or written
           /\ last' = [Done("do_update", "raised") EXCEPT
                         !.rows = [i \in 1..n |-> RowResult(PairOf(rows[i]), "None", 0)]]
           /\ UNCHANGED << db, df_current, tree, checked, pending_edits,
                           pending_row_ids, new_ids, staged_pairs, new_widgets >>
      ELSE \E st \in {RunUpdate(rows, ans, pick, fault)} :
             /\ Len(st.tx) <= MaxRows
             /\ db' = st.committed
             /\ IF ReachesPruning(st.status)
                THEN \* prune the registry, then reload_all, whose load
                     \* succeeds (ok) or fails
                     /\ new_ids' = Keep(new_ids, Range(st.processed_ok_pairs))
                     /\ staged_pairs' =
                          staged_pairs \ Discarded(new_ids, Range(st.processed_ok_pairs))
                     /\ \E ok \in BOOLEAN :
                          /\ ReloadView(ok)
                          /\ new_widgets' = IF ok THEN build_add_rows(new_ids')
                                            ELSE new_widgets
                          /\ last' = [op |-> "do_update", status |-> st.status,
                                      rows |-> st.rows,
                                      log |-> Append(st.log, Reloaded(ok))]
                ELSE \* `return` after an error dialog, or an exception
                     /\ last' = [op |-> "do_update", status |-> st.status,
                                 rows |-> st.rows, log |-> st.log]
                     /\ UNCHANGED << df_current, tree, checked, pending_edits,
                                     pending_row_ids, new_ids, staged_pairs,
                                     new_widgets >>

(***************************************************************************)
(* on_tree_double_click and the editor's _commit.                          *)
(***************************************************************************)
\* what the CellEditor can hand to _commit: the stripped text of an Entry, a
\* choice of a Combobox, or the cell's current text left as it is
EditorValues(item, col) ==
  {Strip(v) : v \in WidgetInputs(col) \cup {tree[item][col]}}

\* a variant of Editable without the tests on the column
Editable_AnyColumn(item, col) ==
  /\ item \in DOMAIN tree
  /\ item \notin pending_row_ids
  /\ item \in checked

\* whether on_tree_double_click opens an editor on the cell
Editable(item, col) ==
  /\ item \in DOMAIN tree
  /\ item \notin pending_row_ids
  /\ item \in checked
  /\ col \notin {"Select", AUTONUMBER_FIELD, "GasIDREC", "PressuresIDREC"}
  /\ col \in EDITABLE_FIELDS

\* the index of an item's entry in _pending_edits, 0 without one
EditIndex(edits, item) ==
  IF \E k \in DOMAIN edits : edits[k].iid = item
  THEN CHOOSE k \in DOMAIN edits : edits[k].iid = item
  ELSE 0

\* self._pending_edits.setdefault(item, {})[col] = value
SetEdit(edits, item, col, value) ==
  LET k == EditIndex(edits, item)
      old == IF k = 0 THEN << >> ELSE edits[k].edits
      new == [c \in (DOMAIN old) \cup {col} |-> IF c = col THEN value ELSE old[c]]
  IN  IF k = 0 THEN Append(edits, [iid |-> item, edits |-> new])
      ELSE [edits EXCEPT ![k].edits = new]

NameInputs == {"Well Name", "Layer Producer", "Completions Technology"}

commit_edit(item, col, value) ==
  /\ Editable(item, col)
  /\ value \in EditorValues(item, col)
  /\ LET t1 == [tree[item] EXCEPT ![col] = value]
         comp == compose_name(t1["Well Name"], t1["Layer Producer"],
                              t1["Completions Technology"])
         e1 == SetEdit(pending_edits, item, col, OrNone(value))
     IN  IF col \in NameInputs
         THEN /\ tree' = [tree EXCEPT ![item] =
                            [t1 EXCEPT !["Composite name"] = StrOrEmpty(comp)]]
              /\ pending_edits' = SetEdit(e1, item, "Composite name", comp)
         ELSE /\ tree' = [tree EXCEPT ![item] = t1]
              /\ pending_edits' = e1
  /\ last' = Done("edit", col)
  /\ UNCHANGED << db, df_current, checked, pending_row_ids, new_ids,
                  staged_pairs, new_widgets >>

(***************************************************************************)
(* save_checked_edits.                                                     *)
(***************************************************************************)
\* a variant of to_update that takes every row with pending edits
ToUpdate_AllEdited(edits, chk) ==
  Pick(edits, {k \in DOMAIN edits : DOMAIN edits[k].edits # {}})

\* to_update: the entries of _pending_edits of checked rows, in dict order
ToUpdate(edits, chk) ==
  Pick(edits, {k \in DOMAIN edits : edits[k].iid \in chk /\ DOMAIN edits[k].edits # {}})

\* payload.get(col, self.tree.set(iid, col))
GetOr(payload, col, default) == IF col \in DOMAIN payload THEN payload[col] ELSE default

\* the payload save_checked_edits passes to update_record for one item
SafePayload(payload, item) ==
  LET safe == (DOMAIN payload) \cap EDITABLE_FIELDS
      comp == compose_name(GetOr(payload, "Well Name", item["Well Name"]),
                           GetOr(payload, "Layer Producer", item["Layer Producer"]),
                           GetOr(payload, "Completions Technology",
                                 item["Completions Technology"]))
  IN  IF comp # NULL
      THEN [c \in safe \cup {"Composite name"} |->
              IF c = "Composite name" THEN comp ELSE payload[c]]
      ELSE [c \in safe |-> payload[c]]

StartSave ==
  [status |-> "running", tx |-> db, committed |-> db, updated |-> 0, failed |-> 0,
   tree |-> tree, written |-> {}, log |-> << Event("connect", 0, 0) >>]

\* one pass of `for iid, payload in to_update.items()`
SaveRow(st, k, entry, fault) ==
  LET rec_id == entry.iid            \* int(iid)
      payload == SafePayload(entry.edits, st.tree[entry.iid])
      tree1 == IF "Composite name" \in DOMAIN payload
               THEN [st.tree EXCEPT ![entry.iid]["Composite name"] =
                                       payload["Composite name"]]
               ELSE st.tree
  IN  IF fault = <<"update", k>>
      THEN [st EXCEPT !.status = "update_failed", !.failed = @ + 1, !.tree = tree1,
                      !.log = @ \o << Event("update", k, rec_id),
                                       Event("error", k, rec_id) >>]
      ELSE [st EXCEPT !.tx = update_record(st.tx, rec_id, payload),
                      !.updated = @ + 1, !.tree = tree1,
                      !.written = @ \cup {rec_id},
                      !.log = Append(@, Event("update", k, rec_id))]

\* a variant of SaveRows that goes on to the next row after a failed update
RECURSIVE SaveRows_KeepsGoing(_, _, _, _)
SaveRows_KeepsGoing(st, k, to_update, fault) ==
  IF k > Len(to_update) THEN st
  ELSE SaveRows_KeepsGoing(SaveRow(st, k, to_update[k], fault), k + 1, to_update, fault)

\* `for iid, payload in to_update.items()`, until an update fails
RECURSIVE SaveRows(_, _, _, _)
SaveRows(st, k, to_update, fault) ==
  IF k > Len(to_update) \/ st.status # "running" THEN st
  ELSE SaveRows(SaveRow(st, k, to_update[k], fault), k + 1, to_update, fault)

\* the store operation that raises in this run of save_checked_edits, if any
SaveFaults(n) ==
  {<<"none", 0>>, <<"connect", 0>>, <<"commit", 0>>}
  \cup {<<"update", k>> : k \in 1..n}

RunSave(to_update, fault) ==
  CloseConnection(SaveRows(StartSave, 1, to_update, fault), fault)

\* `for iid in list(self._checked): self._pending_edits.pop(iid, None)`
PopChecked(edits, chk) == Pick(edits, {k \in DOMAIN edits : edits[k].iid \notin chk})

save_checked_edits(fault) ==
  LET to_update == ToUpdate(pending_edits, checked)
  IN  IF checked = {} \/ to_update = << >>
      THEN \* "No rows checked" / "Nothing to save"
           /\ last' = Done("save", IF checked = {} THEN "no_rows_checked"
                                   ELSE "nothing_to_save")
           /\ UNCHANGED << db, df_current, tree, checked, pending_edits,
                           pending_row_ids, new_ids, staged_pairs, new_widgets >>
      ELSE IF fault = <<"connect", 0>>
      THEN /\ last' = Done("save", "raised")
           /\ UNCHANGED << db, df_current, tree, checked, pending_edits,
                           pending_row_ids, new_ids, staged_pairs, new_widgets >>
      ELSE \E st \in {RunSave(to_update, fault)} :
             /\ db' = st.committed
             /\ UNCHANGED << new_ids, staged_pairs >>
             /\ IF st.status = "completed"
                THEN \* pop the checked rows' edits, then reload_all
                     \/ /\ ReloadView(TRUE)
                        /\ new_widgets' = build_add_rows(new_ids)
                        /\ last' = [op |-> "save", status |-> st.status,
                                    rows |-> << >>,
                                    log |-> Append(st.log, Reloaded(TRUE))]
                     \/ \* the load fails
                        /\ tree' = st.tree
                        /\ pending_edits' = PopChecked(pending_edits, checked)
                        /\ last' = [op |-> "save", status |-> st.status,
                                    rows |-> << >>,
                                    log |-> Append(st.log, Reloaded(FALSE))]
                        /\ UNCHANGED << df_current, checked, pending_row_ids,
                                        new_widgets >>
                ELSE /\ tree' = st.tree
                     /\ last' = [op |-> "save", status |-> st.status,
                                 rows |-> << >>, log |-> st.log]
                     /\ UNCHANGED << df_current, checked, pending_edits,
                                     pending_row_ids, new_widgets >>

Reload == Tick /\ \E ok \in BOOLEAN : reload_all(ok)

ToggleItem == Tick /\ \E item \in DOMAIN tree : toggle_item_checkbox(item)

FillStaged ==
  /\ Tick
  /\ \E i \in DOMAIN new_widgets :
       \E wn \in StagedNames \cup {new_widgets[i].vals["Well Name"]},
          lp \in WidgetInputs("Layer Producer") \cup {new_widgets[i].vals["Layer Producer"]},
          ct \in WidgetInputs("Completions Technology")
                 \cup {new_widgets[i].vals["Completions Technology"]} :
         set_widget_values(i, wn, lp, ct)

ToggleSelected == Tick /\ \E i \in DOMAIN new_widgets : toggle_selected(i)

\* the answers to the duplicate-name prompts: askyesno is reached only for a
\* row with a well name
Answers(rows) ==
  {ans \in [DOMAIN rows -> BOOLEAN] :
     \A i \in DOMAIN rows : ~Truthy(rows[i]["Well Name"]) => ans[i]}

\* the duplicate-name query is made only for a row with a well name
CanRaise(rows, fault) ==
  fault[1] = "dup_query" => Truthy(rows[fault[2]]["Well Name"])

ApplyStaged ==
  /\ Tick
  /\ \E rows \in {SelectedRows(new_widgets)} :
       \E ans \in Answers(rows), pick \in PickChoices(rows),
          fault \in {f \in Faults(Len(rows)) : CanRaise(rows, f)} :
         do_update(ans, pick, fault)

EditCell ==
  /\ Tick
  /\ \E item \in DOMAIN tree, col \in EditInputCols :
       \E value \in EditorValues(item, col) : commit_edit(item, col, value)

SaveEdits ==
  /\ Tick
  /\ \E fault \in SaveFaults(Len(pending_edits)) : save_checked_edits(fault)

\* one user action at a time, each run to completion
Next ==
  \/ Reload
  \/ ToggleItem
  \/ FillStaged
  \/ ToggleSelected
  \/ ApplyStaged
  \/ EditCell
  \/ SaveEdits

Spec == Init /\ [][Next]_vars

(***************************************************************************)
(* A session on the existing-rows tab of a store of complete rows: rows    *)
(* are ticked, their cells edited, and the checked edits saved.            *)
(***************************************************************************)
\* user actions in one session on the existing-rows tab
MaxEditActions == 5

\* a store of two complete rows
EditStores ==
  {Numbered(<< CompleteRow("G1", "P1", "W1", "L1", "T1"),
               CompleteRow("G3", "P3", "W3", "L2", "T1") >>)}

EditInit ==
  /\ db \in EditStores
  /\ df_current = db
  /\ tree = TreeOf(db)
  /\ pending_row_ids = PendingIdsOf(db)
  /\ last = Done("init", "loaded")
  /\ checked = {}
  /\ pending_edits = << >>
  /\ new_ids = << >>
  /\ staged_pairs = {}
  /\ new_widgets = << >>
  /\ actions = 0

EditTick == actions < MaxEditActions /\ actions' = actions + 1

EditReload == EditTick /\ \E ok \in BOOLEAN : reload_all(ok)

EditToggleItem == EditTick /\ \E item \in DOMAIN tree : toggle_item_checkbox(item)

EditEditCell ==
  /\ EditTick
  /\ \E item \in DOMAIN tree, col \in EditInputCols :
       \E value \in EditorValues(item, col) : commit_edit(item, col, value)

EditSaveEdits ==
  /\ EditTick
  /\ \E fault \in SaveFaults(Len(pending_edits)) : save_checked_edits(fault)

EditNext ==
  \/ EditReload
  \/ EditToggleItem
  \/ EditEditCell
  \/ EditSaveEdits

EditSpec == EditInit /\ [][EditNext]_vars

(***************************************************************************)
(* A session on a store of pending rows: rows are staged, rows of the Add  *)
(* New tab are unticked, and the ticked rows are applied.                  *)
(***************************************************************************)
\* user actions in one session of staging and applying
MaxStageActions == 6

\* a store of three pending rows
StageStores ==
  {Numbered(<< PendingRow("G2", "P2"), PendingRow("G1", ""),
               PendingRow("G3", "P3") >>)}

StageInit ==
  /\ db \in StageStores
  /\ df_current = db
  /\ tree = TreeOf(db)
  /\ pending_row_ids = PendingIdsOf(db)
  /\ last = Done("init", "loaded")
  /\ checked = {}
  /\ pending_edits = << >>
  /\ new_ids = << >>
  /\ staged_pairs = {}
  /\ new_widgets = << >>
  /\ actions = 0

StageTick == actions < MaxStageActions /\ actions' = actions + 1

StageReload == StageTick /\ \E ok \in BOOLEAN : reload_all(ok)

StageToggleItem == StageTick /\ \E item \in DOMAIN tree : toggle_item_checkbox(item)

StageToggleSelected == StageTick /\ \E i \in DOMAIN new_widgets : toggle_selected(i)

StageApplyStaged ==
  /\ StageTick
  /\ \E rows \in {SelectedRows(new_widgets)} :
       \E ans \in Answers(rows), pick \in PickChoices(rows),
          fault \in {f \in Faults(Len(rows)) : CanRaise(rows, f)} :
         do_update(ans, pick, fault)

StageNext ==
  \/ StageReload
  \/ StageToggleItem
  \/ StageToggleSelected
  \/ StageApplyStaged

StageSpec == StageInit /\ [][StageNext]_vars

(***************************************************************************)
(* compose_name on its own: the function applied to any three arguments,   *)
(* each absent or a string of at most MaxLen characters.                   *)
(***************************************************************************)
\* characters of a name argument
MaxLen == 3

Alphabet == {" ", "W"}

RECURSIVE Strings(_)
Strings(n) ==
  IF n = 0 THEN {""}
  ELSE Strings(n - 1) \cup {s \o c : s \in Strings(n - 1), c \in Alphabet}

\* an argument of compose_name: str | None
NameArgs == Strings(MaxLen) \cup {NULL}

ComposeInit ==
  /\ \E well \in NameArgs, layer \in NameArgs, tech \in NameArgs :
       last = [op |-> "call", status |-> NULL,
               rows |-> << well, layer, tech >>, log |-> << >>]
  /\ db = << >>
  /\ df_current = << >>
  /\ tree = << >>
  /\ checked = {}
  /\ pending_edits = << >>
  /\ pending_row_ids = {}
  /\ new_ids = << >>
  /\ staged_pairs = {}
  /\ new_widgets = << >>
  /\ actions = 0

\* the call returns: last.status is the value returned
ComposeName ==
  /\ last.op = "call"
  /\ last' = [last EXCEPT !.op = "compose_name",
                          !.status = compose_name(last.rows[1], last.rows[2],
                                                  last.rows[3])]
  /\ UNCHANGED << db, df_current, tree, checked, pending_edits, pending_row_ids,
                  new_ids, staged_pairs, new_widgets, actions >>

ComposeNext == ComposeName

ComposeSpec == ComposeInit /\ [][ComposeNext]_vars

(***************************************************************************)
(* Vocabulary of the properties.                                           *)
(***************************************************************************)
\* the pairs of the Staged Entries
EntryPairs(ids) == {PairOf(ids[i]) : i \in DOMAIN ids}

\* the pairs the Staging Registry tracks, in either of its structures
RegistryPairs == staged_pairs \cup EntryPairs(new_ids)

\* the identifier pair of a store row as the existing-rows view shows it and
\* _toggle_item_checkbox reads it back
StorePair(row) ==
  << StrOrEmpty(TkStr(row["GasIDREC"])), StrOrEmpty(TkStr(row["PressuresIDREC"])) >>

\* the number of store rows carrying a pair
CountPair(rows, pair) == Cardinality({i \in DOMAIN rows : StorePair(rows[i]) = pair})

\* the outcomes of the rows of the last apply-staged action
Outcomes == {last.rows[i].outcome : i \in DOMAIN last.rows}

\* the last action was an apply-staged action that opened the store and left
\* the `with` block by its end or by a `return`
ApplyEnded ==
  last.op = "do_update" /\ last.status \in {"completed", "update_failed", "insert_failed"}

\* row i of the last apply-staged action was asked about and continued
Continued(i) == \E k \in DOMAIN last.log : last.log[k] = Event("ask", i, 1)

(***************************************************************************)
(* C1: a pair leaves the Staging Registry only in an apply-staged action   *)
(* that ran to its end and in which the pair's own row was updated or      *)
(* inserted; unselected, skipped and failed rows stay, and no reload       *)
(* removes a pair.                                                         *)
(***************************************************************************)
C1_LeavesOnlyWhenPersisted ==
  [][\A p \in RegistryPairs :
       (p \in staged_pairs \ staged_pairs'
        \/ p \in EntryPairs(new_ids) \ EntryPairs(new_ids')) =>
         /\ last'.op = "do_update"
         /\ last'.status = "completed"
         /\ \E i \in DOMAIN last'.rows :
              /\ last'.rows[i].pair = p
              /\ last'.rows[i].outcome \in {"Updated", "Inserted"}
              /\ \E w \in Range(new_widgets) : w.selected /\ PairOf(Payload(w)) = p
              /\ \E k \in DOMAIN db' : db'[k]["ID"] = last'.rows[i].rec_id]_vars

\* an action unstaged an updated pair and kept another pair staged
C1_Witness ==
  /\ last.op = "do_update"
  /\ last.status = "completed"
  /\ staged_pairs # {}
  /\ \E i \in DOMAIN last.rows :
       /\ last.rows[i].outcome = "Updated"
       /\ last.rows[i].pair \notin RegistryPairs

(***************************************************************************)
(* C2: after an apply-staged action ends, every pair whose row was updated *)
(* or inserted in the store by it is out of the Staging Registry, also     *)
(* when a later row of the action fails.                                   *)
(***************************************************************************)
C2_PersistedPairsUnstaged ==
  ApplyEnded =>
    \A i \in DOMAIN last.rows :
      last.rows[i].outcome \in {"Updated", "Inserted"} =>
        last.rows[i].pair \notin RegistryPairs

(***************************************************************************)
(* C3: staging is idempotent: the Staged Entries never hold an identifier  *)
(* pair twice.                                                             *)
(***************************************************************************)
C3_NoPairStagedTwice ==
  \A i, j \in DOMAIN new_ids :
    i # j => PairOf(new_ids[i]) # PairOf(new_ids[j])

\* the user ticked a pending row whose pair was staged already
C3_Witness ==
  last.op = "stage" /\ last.status = "already_staged" /\ Len(new_ids) >= 1

(***************************************************************************)
(* C4: a reload, successful or failed, leaves the Staging Registry as it   *)
(* was: the same entries in the same order, the same promoted set.         *)
(***************************************************************************)
C4_ReloadKeepsRegistry ==
  [][last'.op = "reload" => new_ids' = new_ids /\ staged_pairs' = staged_pairs]_vars

\* a successful reload with two pairs staged
C4_Witness ==
  last.op = "reload" /\ last.status = "loaded" /\ Len(new_ids) = 2

(***************************************************************************)
(* C5: the values the user entered into a Staged Entry survive a reload.   *)
(***************************************************************************)
C5_ReloadKeepsEnteredValues ==
  [][last'.op = "reload" =>
       /\ Len(new_widgets') = Len(new_widgets)
       /\ \A i \in DOMAIN new_widgets :
            new_widgets'[i].vals = new_widgets[i].vals]_vars

(***************************************************************************)
(* C6: no pair of the Staging Registry is shown as a pending row of the    *)
(* existing-rows view.                                                     *)
(***************************************************************************)
C6_StagedNotShownPending ==
  \A item \in pending_row_ids \cap DOMAIN tree :
    << StrOrEmpty(tree[item]["GasIDREC"]), StrOrEmpty(tree[item]["PressuresIDREC"]) >>
      \notin RegistryPairs

(***************************************************************************)
(* C7: no action changes the gas-record id or the pressure-record id of a  *)
(* store row, whatever the payload holds.                                  *)
(***************************************************************************)
C7_IdentifiersImmutable ==
  [][\A i \in DOMAIN db :
       /\ i \in DOMAIN db'
       /\ db'[i]["ID"] = db[i]["ID"]
       /\ db'[i]["GasIDREC"] = db[i]["GasIDREC"]
       /\ db'[i]["PressuresIDREC"] = db[i]["PressuresIDREC"]]_vars

\* a row was updated from a payload whose pair differs from the row's own
C7_Witness ==
  /\ ApplyEnded
  /\ \E i \in DOMAIN last.rows :
       /\ last.rows[i].outcome = "Updated"
       /\ \E k \in DOMAIN db :
            /\ db[k]["ID"] = last.rows[i].rec_id
            /\ PairOf(db[k]) # last.rows[i].pair

(***************************************************************************)
(* C8: in apply-staged a row that is not skipped is an Update of the row   *)
(* the identifier-pair lookup finds, and goes to the insert batch exactly  *)
(* when the lookup finds nothing; the duplicate-name check has no say.     *)
(***************************************************************************)
C8_LookupDecides ==
  [][last'.op = "do_update" /\ last'.status # "nothing_selected" =>
       \A i \in DOMAIN last'.rows :
         LET r == SelectedRows(new_widgets)[i]
             found == find_existing_id(db, r["GasIDREC"], r["PressuresIDREC"])
             res == last'.rows[i]
             asUpdate == res.outcome = "Updated"
                         \/ (res.outcome = "Failed" /\ res.rec_id # 0)
             asInsert == res.outcome \in {"Batched", "Inserted"}
                         \/ (res.outcome = "Failed" /\ res.rec_id = 0)
         IN  res.outcome \notin {"None", "Skipped"} =>
               /\ asUpdate <=> found # {0}
               /\ asInsert <=> found = {0}
               /\ asUpdate => res.rec_id \in found]_vars

\* a row continued past the duplicate-name prompt was inserted, its pair not found
C8_Witness ==
  /\ last.op = "do_update"
  /\ \E i \in DOMAIN last.rows :
       /\ Continued(i)
       /\ last.rows[i].outcome = "Inserted"

(***************************************************************************)
(* C9: applying a pair staged from a pending row of the store never adds a *)
(* row carrying that pair: the number of store rows with a staged pair     *)
(* does not grow.                                                          *)
(***************************************************************************)
C9_NoDuplicateRows ==
  [][\A p \in RegistryPairs : CountPair(db', p) <= CountPair(db, p)]_vars

(***************************************************************************)
(* C10: every selected row of an apply-staged action ends with exactly one *)
(* of Inserted, Updated, Skipped, Failed, the rows after a failing row     *)
(* included.                                                               *)
(***************************************************************************)
C10_EveryRowHasAnOutcome ==
  ApplyEnded => Outcomes \subseteq {"Inserted", "Updated", "Skipped", "Failed"}

\* the last action was a save-edits or apply-staged action that left the
\* `with` block by its end or by a `return`
ActionEnded ==
  /\ last.op \in {"save", "do_update"}
  /\ last.status \in {"completed", "update_failed", "insert_failed"}

\* the UPDATE of log entry k of the last action was executed: it is not the
\* one that raised
UpdateExecuted(k) ==
  /\ last.log[k].ev = "update"
  /\ ~ /\ last.status = "update_failed"
       /\ \A m \in DOMAIN last.log : m > k => last.log[m].ev # "update"

\* the IDs of the rows the last action updated or inserted
WrittenIds ==
  {last.log[k].arg : k \in {j \in DOMAIN last.log : UpdateExecuted(j)}}
  \cup {last.rows[i].rec_id : i \in {j \in DOMAIN last.rows :
                                       last.rows[j].outcome = "Inserted"}}

(***************************************************************************)
(* C11: after a save-edits or apply-staged action, the composite name      *)
(* stored for every row the action wrote equals compose_name of the row's  *)
(* stored well name, layer and technology (none when any of them is        *)
(* blank).                                                                 *)
(***************************************************************************)
C11_CompositeMatchesInputs ==
  ActionEnded =>
    \A k \in DOMAIN db :
      db[k]["ID"] \in WrittenIds =>
        db[k]["Composite name"] =
          compose_name(db[k]["Well Name"], db[k]["Layer Producer"],
                       db[k]["Completions Technology"])

\* s consists of whitespace only
AllSpace(s) == \A i \in 1..Len(s) : SubSeq(s, i, i) \in Whitespace

\* t is s without its leading and trailing whitespace
IsTrimOf(t, s) ==
  \E i \in 1..(Len(s) + 1), j \in 0..Len(s) :
    /\ t = SubSeq(s, i, j)
    /\ AllSpace(SubSeq(s, 1, i - 1))
    /\ AllSpace(SubSeq(s, j + 1, Len(s)))
    /\ t # "" => /\ SubSeq(t, 1, 1) \notin Whitespace
                 /\ SubSeq(t, Len(t), Len(t)) \notin Whitespace

\* an argument after trimming; an absent argument counts as empty
Trimmed(v) ==
  IF v = NULL \/ v = "" THEN ""
  ELSE CHOOSE t \in {SubSeq(v, i, j) : i \in 1..(Len(v) + 1), j \in 0..Len(v)} :
         IsTrimOf(t, v)

(***************************************************************************)
(* C12: for all (well, layer, tech), absent values included, compose_name  *)
(* returns a value iff all three are non-empty after trimming, and the     *)
(* value is the trimmed inputs joined by " - " in the order well, layer,   *)
(* tech.                                                                   *)
(***************************************************************************)
C12_ComposeIffAllPresent ==
  last.op = "compose_name" =>
    LET w == Trimmed(last.rows[1])
        l == Trimmed(last.rows[2])
        t == Trimmed(last.rows[3])
    IN  /\ last.status # NULL <=> (w # "" /\ l # "" /\ t # "")
        /\ last.status # NULL => last.status = w \o " - " \o l \o " - " \o t

\* a name was composed from arguments that needed trimming
C12_Witness ==
  /\ last.op = "compose_name"
  /\ last.status # NULL
  /\ \A i \in 1..3 : last.rows[i] # Trimmed(last.rows[i])

\* the ticked rows of widgets, in the order of the tab
SelectedWidgets == Pick(new_widgets, {i \in DOMAIN new_widgets : new_widgets[i].selected})

\* row i of the ending apply-staged action was updated or inserted, and no
\* later row of the action wrote to the same store row
LastWriter(res, i) ==
  /\ res[i].outcome \in {"Updated", "Inserted"}
  /\ \A j \in DOMAIN res :
       (j > i /\ res[j].outcome \in {"Updated", "Inserted"}) =>
         res[j].rec_id # res[i].rec_id

(***************************************************************************)
(* C13: when apply-staged persists a row, every editable field left blank  *)
(* in the staged entry is stored as null, and so is the composite name     *)
(* when the well name, layer or technology is blank; none is stored as the *)
(* empty string.                                                           *)
(***************************************************************************)
C13_BlankStoredAsNull ==
  [][(last'.op = "do_update"
      /\ last'.status \in {"completed", "update_failed", "insert_failed"}) =>
       \A i \in DOMAIN last'.rows :
         LastWriter(last'.rows, i) =>
           \A k \in DOMAIN db' :
             db'[k]["ID"] = last'.rows[i].rec_id =>
               LET w == SelectedWidgets[i]
               IN  /\ \A c \in EDITABLE_FIELDS :
                        Trimmed(w.vals[c]) = "" => db'[k][c] = NULL
                   /\ (\E c \in NameInputs : Trimmed(w.vals[c]) = "") =>
                        db'[k]["Composite name"] = NULL]_vars

\* a row was inserted with a well name and without a composite name
C13_Witness ==
  /\ last.op = "do_update"
  /\ last.status = "completed"
  /\ \E i \in DOMAIN last.rows, k \in DOMAIN db :
       /\ last.rows[i].outcome = "Inserted"
       /\ db[k]["ID"] = last.rows[i].rec_id
       /\ db[k]["Well Name"] # NULL
       /\ db[k]["Layer Producer"] = NULL
       /\ db[k]["Composite name"] = NULL

\* the positions of the events of a kind for a row in the last action's log
EventsAt(ev, row) ==
  {k \in DOMAIN last.log : last.log[k].ev = ev /\ last.log[k].row = row}

\* the well name wn is in the store when row i of the action that leads to
\* the next state is examined: a row the action has not updated carries it,
\* or an earlier row of the action wrote it
NameInStoreAt(i, wn) ==
  LET before == {j \in DOMAIN last'.rows : j < i /\ last'.rows[j].outcome = "Updated"}
  IN  \/ \E r \in DOMAIN db :
            /\ db[r]["Well Name"] = wn
            /\ \A j \in before : last'.rows[j].rec_id # db[r]["ID"]
      \/ \E j \in before :
            /\ SelectedRows(new_widgets)[j]["Well Name"] = wn
            /\ \A k \in before : k > j => last'.rows[k].rec_id # last'.rows[j].rec_id

(***************************************************************************)
(* C14: in apply-staged, for a row whose non-blank well name is the well   *)
(* name of a row of the store when the row is examined, the continue/skip  *)
(* decision is requested before any lookup or write for that row; after    *)
(* the answer "skip" the row is Skipped, nothing is looked up, written or  *)
(* batched for it, and its pair stays staged.                              *)
(***************************************************************************)
C14_AskBeforeLookupAndWrite ==
  [][last'.op = "do_update" =>
       \A i \in DOMAIN last'.rows :
         LET wn == SelectedRows(new_widgets)[i]["Well Name"]
             asks == {k \in DOMAIN last'.log :
                        last'.log[k].ev = "ask" /\ last'.log[k].row = i}
             acts == {k \in DOMAIN last'.log :
                        last'.log[k].ev \in {"lookup", "update"} /\ last'.log[k].row = i}
             skip == \E k \in asks : last'.log[k].arg = 0
         IN  (Truthy(wn) /\ NameInStoreAt(i, wn)) =>
               /\ \A a \in acts : \E k \in asks : k < a
               /\ last'.rows[i].outcome \in {"Updated", "Batched", "Inserted", "Failed"}
                    => asks # {}
               /\ skip =>
                    /\ last'.rows[i].outcome = "Skipped"
                    /\ acts = {}
                    /\ last'.rows[i].pair \in staged_pairs
                         => last'.rows[i].pair \in staged_pairs'
                    /\ last'.rows[i].pair \in EntryPairs(new_ids)
                         => last'.rows[i].pair \in EntryPairs(new_ids')]_vars

\* a row with an existing well name was asked about and skipped, and its pair
\* is still staged
C14_Witness ==
  /\ last.op = "do_update"
  /\ \E i \in DOMAIN last.rows :
       /\ \E k \in EventsAt("ask", i) : last.log[k].arg = 0
       /\ last.rows[i].outcome = "Skipped"
       /\ last.rows[i].pair \in staged_pairs

\* the positions of the batched inserts in the last action's log
InsertsAt == {k \in DOMAIN last.log : last.log[k].ev = "insert"}

(***************************************************************************)
(* C15: within one apply-staged action the batched insert executes at most *)
(* once, and when it executes every selected row has been classified (its  *)
(* lookup made, unless the row was skipped) and no prompt, lookup or       *)
(* update of a row comes after it.                                         *)
(***************************************************************************)
C15_InsertOnceAfterClassifying ==
  last.op = "do_update" =>
    /\ Cardinality(InsertsAt) <= 1
    /\ \A k \in InsertsAt :
         /\ \A i \in DOMAIN last.rows :
              \/ last.rows[i].outcome = "Skipped"
              \/ \E j \in EventsAt("lookup", i) : j < k
         /\ \A j \in DOMAIN last.log :
              last.log[j].ev \in {"dup_query", "ask", "lookup", "update"} => j < k

\* an action of two rows batched its first row, updated its second and then
\* ran the insert
C15_Witness ==
  /\ last.op = "do_update"
  /\ Len(last.rows) = 2
  /\ last.rows[1].outcome = "Inserted"
  /\ last.rows[2].outcome = "Updated"
  /\ InsertsAt # {}

(***************************************************************************)
(* C16: a save-edits or apply-staged action that stops on a failed update  *)
(* or a failed batch insert leaves the committed store as it was before    *)
(* the action: none of its earlier writes is committed.                    *)
(***************************************************************************)
C16_FailedActionCommitsNothing ==
  [][(last'.op \in {"save", "do_update"}
      /\ last'.status \in {"update_failed", "insert_failed"}) => db' = db]_vars

\* the positions of the calls of conn.commit() in the last action's log
CommitsAt == {k \in DOMAIN last.log : last.log[k].ev = "commit"}

(***************************************************************************)
(* C17: every completed save-edits or apply-staged action calls commit on  *)
(* the store exactly once, an apply-staged action with updates and a batch *)
(* insert included.                                                        *)
(***************************************************************************)
C17_OneCommitPerAction ==
  (last.op \in {"save", "do_update"} /\ last.status = "completed") =>
    Cardinality(CommitsAt) = 1

(***************************************************************************)
(* C18: when the batch insert of an apply-staged action fails, none of the *)
(* rows of the batch is in the store afterwards (the store has the rows it *)
(* had), and none of their pairs has left the Staging Registry.            *)
(***************************************************************************)
C18_FailedBatchInsertsNothing ==
  [][(last'.op = "do_update" /\ last'.status = "insert_failed") =>
       /\ Len(db') = Len(db)
       /\ \A i \in DOMAIN last'.rows :
            last'.rows[i].outcome = "Failed" =>
              /\ last'.rows[i].pair \in staged_pairs
                   => last'.rows[i].pair \in staged_pairs'
              /\ last'.rows[i].pair \in EntryPairs(new_ids)
                   => last'.rows[i].pair \in EntryPairs(new_ids')]_vars

\* the rows of the action that leads to the next state whose update failed
\* (the "Update Error" dialog was shown for them)
FailedRows ==
  {last'.log[k].row : k \in {j \in DOMAIN last'.log : last'.log[j].ev = "error"}}

(***************************************************************************)
(* C19: save-edits is fail-fast: when the update of one row of a save      *)
(* cycle fails, no row that comes later in the cycle is updated, and the   *)
(* action ends without reloading (the snapshot, the checked set and the    *)
(* pending edits are as they were).                                        *)
(***************************************************************************)
C19_SaveStopsAtFirstFailure ==
  [][(last'.op = "save" /\ last'.status = "update_failed") =>
       LET to_update == ToUpdate(pending_edits, checked)
       IN  /\ FailedRows # {}
           /\ \A j \in DOMAIN to_update :
                (\E f \in FailedRows : j > f) =>
                  /\ \A k \in DOMAIN last'.log :
                       last'.log[k].ev = "update" => last'.log[k].row # j
                  /\ \A r \in DOMAIN db :
                       db[r]["ID"] = to_update[j].iid =>
                         /\ r \in DOMAIN db'
                         /\ db'[r] = db[r]
           /\ df_current' = df_current
           /\ checked' = checked
           /\ pending_edits' = pending_edits]_vars

\* the first update of a save cycle of two rows failed
C19_Witness ==
  /\ last.op = "save"
  /\ last.status = "update_failed"
  /\ Cardinality({k \in DOMAIN last.log : last.log[k].ev = "update"}) = 1
  /\ Len(ToUpdate(pending_edits, checked)) = 2

(***************************************************************************)
(* C20: no store-level error (opening the connection, the duplicate-name   *)
(* query, the identifier-pair lookup, an update, the batch insert, the     *)
(* commit) leaves save-edits or apply-staged as an exception: every action *)
(* ends with a reported outcome.                                           *)
(***************************************************************************)
C20_NoErrorPropagates ==
  last.op \in {"save", "do_update"} => last.status # "raised"

(***************************************************************************)
(* C21: a reload whose load fails reports the error and changes nothing:   *)
(* the snapshot, the existing-rows view, the checked set, the pending      *)
(* edits and the staging registry are as before the reload.                *)
(***************************************************************************)
C21_FailedReloadChangesNothing ==
  [][(last'.op = "reload" /\ last'.status = "load_error")
       => UNCHANGED << db, df_current, tree, checked, pending_edits,
                       pending_row_ids, new_ids, staged_pairs, new_widgets >>]_vars

\* a failed reload with a staged row, a checked row and a pending edit
C21_Witness ==
  /\ last.op = "reload"
  /\ last.status = "load_error"
  /\ new_ids # << >>
  /\ checked # {}
  /\ pending_edits # << >>

(***************************************************************************)
(* find_existing_id on its own: a store and the two arguments are drawn,   *)
(* the call returns one of the IDs the query can yield (0 for None).       *)
(***************************************************************************)
\* the arguments callers pass: None, a blank, the text of a NULL cell, an
\* identifier of the store, an identifier of no row
GasArgs == {NULL, "", "None", "G1", "G2", "G3"}

PresArgs == {NULL, "", "None", "P1", "P2", "P3"}

LookupInit ==
  /\ db \in InitStores
  /\ \E gas_id \in GasArgs, pres_id \in PresArgs :
       last = [op |-> "call", status |-> 0,
               rows |-> << gas_id, pres_id >>, log |-> << >>]
  /\ df_current = << >>
  /\ tree = << >>
  /\ checked = {}
  /\ pending_edits = << >>
  /\ pending_row_ids = {}
  /\ new_ids = << >>
  /\ staged_pairs = {}
  /\ new_widgets = << >>
  /\ actions = 0

\* the call returns: last.status is the ID returned
FindExistingId ==
  /\ last.op = "call"
  /\ \E rec_id \in find_existing_id(db, last.rows[1], last.rows[2]) :
       last' = [last EXCEPT !.op = "find_existing_id", !.status = rec_id]
  /\ UNCHANGED << db, df_current, tree, checked, pending_edits, pending_row_ids,
                  new_ids, staged_pairs, new_widgets, actions >>

LookupNext == FindExistingId

LookupSpec == LookupInit /\ [][LookupNext]_vars

\* the rows of the store with the given ID
RowsWithId(rec_id) == {i \in DOMAIN db : db[i][AUTONUMBER_FIELD] = rec_id}

\* the argument is given: neither None nor blank
Given(arg) == arg # NULL /\ arg # ""

(***************************************************************************)
(* C22: with both identifiers given the row returned matches both; with    *)
(* one given it matches that one; nothing is returned when neither is      *)
(* given or no row matches; an ID returned is the ID of a row of the store.*)
(***************************************************************************)
C22_LookupMatchesGivenComponents ==
  last.op = "find_existing_id" =>
    LET gas_id == last.rows[1]
        pres_id == last.rows[2]
        Matching == {i \in DOMAIN db :
                       /\ Given(gas_id) => db[i]["GasIDREC"] = gas_id
                       /\ Given(pres_id) => db[i]["PressuresIDREC"] = pres_id}
    IN  /\ last.status # 0 =>
             /\ RowsWithId(last.status) # {}
             /\ RowsWithId(last.status) \subseteq Matching
             /\ Given(gas_id) \/ Given(pres_id)
        /\ last.status = 0 =>
             \/ ~Given(gas_id) /\ ~Given(pres_id)
             \/ Matching = {}

\* both identifiers given, one row matches both and another only the first:
\* the row matching both is returned
C22_Witness ==
  /\ last.op = "find_existing_id"
  /\ Given(last.rows[1]) /\ Given(last.rows[2])
  /\ last.status # 0
  /\ \E i \in DOMAIN db : /\ db[i]["GasIDREC"] = last.rows[1]
                          /\ db[i]["PressuresIDREC"] # last.rows[2]

\* the value do_update stores for a field of a staged entry: the text
\* without surrounding whitespace, null when nothing is left
StagedValue(text) == LET t == Trimmed(text) IN IF t = "" THEN NULL ELSE t

(***************************************************************************)
(* C23: an Update of apply-staged sets the nine editable fields of the     *)
(* matched row (the eight entry and dropdown fields and the composite      *)
(* name) to the values of the staged entry; a field left blank in the      *)
(* entry is stored as null whatever the row held.                          *)
(***************************************************************************)
C23_UpdateSetsAllEditableFields ==
  [][(last'.op = "do_update"
      /\ last'.status \in {"completed", "update_failed", "insert_failed"}) =>
       /\ Cardinality(EDITABLE_FIELDS \cup {"Composite name"}) = 9
       /\ \A i \in DOMAIN last'.rows :
         (last'.rows[i].outcome = "Updated" /\ LastWriter(last'.rows, i)) =>
           \A w \in {SelectedWidgets[i]}, k \in DOMAIN db' :
             db'[k]["ID"] = last'.rows[i].rec_id =>
               /\ \A c \in EDITABLE_FIELDS :
                    db'[k][c] = StagedValue(w.vals[c])
               /\ db'[k]["Composite name"] = StagedValue(w.comp_var)]_vars

\* an Update wrote the staged well name over a row and null over the layer
\* the row held
C23_Witness ==
  /\ last.op = "do_update"
  /\ last.status = "completed"
  /\ \E i \in DOMAIN last.rows, k \in DOMAIN db :
       /\ last.rows[i].outcome = "Updated"
       /\ db[k]["ID"] = last.rows[i].rec_id
       /\ db[k]["PressuresIDREC"] = "P1"
       /\ db[k]["Well Name"] = "W1"
       /\ db[k]["Layer Producer"] = NULL

(***************************************************************************)
(* update_record on its own: a store, an ID and a payload are drawn, the   *)
(* UPDATE is executed on the store.                                        *)
(***************************************************************************)
\* the columns a drawn payload may name: the AutoNumber column, an
\* identifier column and three updatable columns
PayloadCols == {"ID", "GasIDREC", "Well Name", "Layer Producer", "Composite name"}

\* the values a drawn payload carries: a text of no row, or None
PayloadValues == {"X1", NULL}

\* the payloads drawn: any subset of PayloadCols, one value for its columns
UpdatePayloads == {[c \in S |-> v] : S \in SUBSET PayloadCols, v \in PayloadValues}

\* the IDs drawn: those of the rows of the largest store, and one of no row
UpdateIds == 1..(MaxInitRows + 1)

UpdateInit ==
  /\ db \in InitStores
  /\ \E rec_id \in UpdateIds, payload \in UpdatePayloads :
       last = [op |-> "call", status |-> NULL,
               rows |-> << rec_id, payload >>, log |-> << >>]
  /\ df_current = << >>
  /\ tree = << >>
  /\ checked = {}
  /\ pending_edits = << >>
  /\ pending_row_ids = {}
  /\ new_ids = << >>
  /\ staged_pairs = {}
  /\ new_widgets = << >>
  /\ actions = 0

\* the call returns: db is the table as the connection sees it
UpdateRecord ==
  /\ last.op = "call"
  /\ db' = update_record(db, last.rows[1], last.rows[2])
  /\ last' = [last EXCEPT !.op = "update_record"]
  /\ UNCHANGED << df_current, tree, checked, pending_edits, pending_row_ids,
                  new_ids, staged_pairs, new_widgets, actions >>

UpdateNext == UpdateRecord

UpdateSpec == UpdateInit /\ [][UpdateNext]_vars

(***************************************************************************)
(* C24: update_record changes only columns named in the payload, and only  *)
(* in the row with the given ID: columns the payload does not name and     *)
(* all other rows are unchanged, and a payload that names no updatable     *)
(* column changes nothing.                                                 *)
(***************************************************************************)
C24_UpdateTouchesOnlyPayloadColumns ==
  [][last'.op = "update_record" =>
       LET rec_id == last.rows[1]
           payload == last.rows[2]
       IN  /\ DOMAIN db' = DOMAIN db
           /\ \A i \in DOMAIN db :
                /\ db[i]["ID"] # rec_id => db'[i] = db[i]
                /\ \A c \in Columns \ DOMAIN payload : db'[i][c] = db[i][c]
           /\ DOMAIN payload \subseteq {"ID", "GasIDREC", "PressuresIDREC"}
                => db' = db]_vars

\* an UPDATE wrote a payload column of one row of a store of several rows
\* whose other columns hold values
C24_Witness ==
  /\ last.op = "update_record"
  /\ Len(db) > 1
  /\ DOMAIN last.rows[2] = {"Well Name"}
  /\ \E i \in DOMAIN db :
       /\ db[i]["ID"] = last.rows[1]
       /\ db[i]["Well Name"] = "X1"
       /\ db[i]["Layer Producer"] = "L1"

(***************************************************************************)
(* C25: no action deletes a row of the store or changes a surrogate ID:    *)
(* over every step the rows of the store stay, each with its ID, and a row *)
(* that is added carries an ID of no other row.                            *)
(***************************************************************************)
C25_RowsAndIdsStay ==
  [][/\ Len(db') >= Len(db)
     /\ \A i \in DOMAIN db : db'[i]["ID"] = db[i]["ID"]
     /\ \A k \in (DOMAIN db') \ (DOMAIN db) :
          \A j \in (DOMAIN db') \ {k} : db'[j]["ID"] # db'[k]["ID"]]_vars

\* one action updated a row and inserted another
C25_Witness ==
  /\ last.op = "do_update"
  /\ last.status = "completed"
  /\ \E i, j \in DOMAIN last.rows :
       /\ last.rows[i].outcome = "Updated"
       /\ last.rows[j].outcome = "Inserted"
       /\ \E k \in DOMAIN db : db[k]["ID"] = last.rows[j].rec_id

\* t is s with some of its elements left out
IsSubsequence(t, s) ==
  \E f \in [DOMAIN t -> DOMAIN s] :
    /\ \A a, b \in DOMAIN t : a < b => f[a] < f[b]
    /\ \A a \in DOMAIN t : t[a] = s[f[a]]

(***************************************************************************)
(* C26: the Staged Entries keep their insertion order: staging a pair      *)
(* appends its entry at the end, an apply-staged action leaves the entries *)
(* it keeps in their relative order, and no other action changes the list. *)
(***************************************************************************)
C26_StagedEntriesKeepOrder ==
  [][/\ (last'.op = "stage" /\ last'.status = "staged") =>
          /\ Len(new_ids') = Len(new_ids) + 1
          /\ SubSeq(new_ids', 1, Len(new_ids)) = new_ids
     /\ last'.op = "do_update" => IsSubsequence(new_ids', new_ids)
     /\ (last'.op # "do_update" /\ ~(last'.op = "stage" /\ last'.status = "staged"))
          => new_ids' = new_ids]_vars

\* an apply-staged action removed an entry and kept two
C26_Witness ==
  /\ last.op = "do_update"
  /\ last.status = "completed"
  /\ \E i \in DOMAIN last.rows : last.rows[i].outcome = "Updated"
  /\ Len(new_ids) >= 2

(***************************************************************************)
(* C27: an Update of apply-staged for a staged pair modifies only a store  *)
(* row whose gas-record id and pressure-record id both equal the pair      *)
(* (a blank component equal to an absent one), never a row that shares     *)
(* one component with it.                                                  *)
(***************************************************************************)
C27_UpdateOnlyRowOfThePair ==
  ApplyEnded =>
    \A i \in DOMAIN last.rows :
      last.rows[i].outcome = "Updated" =>
        \A k \in DOMAIN db :
          db[k]["ID"] = last.rows[i].rec_id =>
            /\ StrOrEmpty(db[k]["GasIDREC"]) = last.rows[i].pair[1]
            /\ StrOrEmpty(db[k]["PressuresIDREC"]) = last.rows[i].pair[2]

\* the user answered "continue" to the duplicate-name prompt for the well
\* name wn in the action that leads to the next state
ContinuedFor(wn) ==
  /\ last'.op = "do_update"
  /\ \E k \in DOMAIN last'.log :
       /\ last'.log[k].ev = "ask"
       /\ last'.log[k].arg = 1
       /\ SelectedRows(new_widgets)[last'.log[k].row]["Well Name"] = wn

(***************************************************************************)
(* C28: no action makes two rows of the store carry the same non-blank     *)
(* well name unless the user answered "continue" to a duplicate-name       *)
(* prompt for that name in the action: whenever the rows with a name grow  *)
(* to two or more, the name was prompted for and continued.                *)
(***************************************************************************)
C28_NoSilentDuplicateNames ==
  [][\A k \in DOMAIN db' :
       LET wn == db'[k]["Well Name"]
       IN  (/\ Truthy(wn)
            /\ CountWellName(db', wn) >= 2
            /\ CountWellName(db', wn) > CountWellName(db, wn))
             => ContinuedFor(wn)]_vars

\* the row with this ID has a pending edit
HasPendingEdit(rec_id) ==
  \E e \in DOMAIN pending_edits :
    pending_edits[e].iid = rec_id /\ DOMAIN pending_edits[e].edits # {}

(***************************************************************************)
(* C29: save_checked_edits writes only rows that are checked and have a    *)
(* pending edit when the save starts: every UPDATE it sends and every row  *)
(* that changes is such a row, no row is added, and with no row checked or *)
(* no checked row edited the store is not opened.                          *)
(***************************************************************************)
C29_SaveWritesOnlyCheckedEditedRows ==
  [][last'.op = "save" =>
       /\ Len(db') = Len(db)
       /\ \A k \in DOMAIN last'.log :
            last'.log[k].ev = "update" =>
              last'.log[k].arg \in checked /\ HasPendingEdit(last'.log[k].arg)
       /\ \A r \in DOMAIN db :
            db'[r] # db[r] =>
              db[r]["ID"] \in checked /\ HasPendingEdit(db[r]["ID"])
       /\ (\A r \in checked : ~HasPendingEdit(r)) =>
            (last'.log = << >> /\ db' = db)]_vars

\* a save wrote the one edited row of two checked rows (the closing reload
\* failed, so both are still checked)
C29_Witness ==
  /\ last.op = "save"
  /\ last.status = "completed"
  /\ Cardinality(checked) = 2
  /\ Cardinality(EventsAt("update", 1)) = 1
  /\ EventsAt("update", 2) = {}
  /\ \E r \in DOMAIN db : db[r] # df_current[r]

\* the pending edits as a set of (item, column, value)
EditTriples(edits) ==
  UNION {{<< edits[e].iid, c, edits[e].edits[c] >> : c \in DOMAIN edits[e].edits} :
           e \in DOMAIN edits}

\* the row of the loaded snapshot an item of the view stands for is pending
PendingInSnapshot(item) ==
  \E r \in DOMAIN df_current :
    df_current[r]["ID"] = item /\ IsPending(df_current[r])

C31_FailedApplyKeepsRegistry ==
  [][(last'.op = "do_update"
      /\ last'.status \in {"update_failed", "insert_failed"}) =>
       /\ UNCHANGED << new_ids, staged_pairs, new_widgets >>
       /\ \A i \in DOMAIN last'.rows :
            Cardinality({k \in DOMAIN last'.log :
                           last'.log[k].ev = "update" /\ last'.log[k].row = i}) <= 1
       /\ Cardinality({k \in DOMAIN last'.log : last'.log[k].ev = "insert"}) <= 1]_vars

\* an action stopped on a failed update after it had updated an earlier
\* row, whose pair is still staged
C31_Witness ==
  /\ last.op = "do_update"
  /\ last.status = "update_failed"
  /\ \E i \in DOMAIN last.rows :
       /\ last.rows[i].outcome = "Updated"
       /\ last.rows[i].pair \in staged_pairs
       /\ last.rows[i].pair \in EntryPairs(new_ids)

(***************************************************************************)
(* C32: the two structures of the Staging Registry agree in every          *)
(* reachable state: the pairs of the Staged Entries (new_ids) are the      *)
(* pairs of the promoted set (_staged_pairs).                              *)
(***************************************************************************)
C32_RegistryStructuresAgree == EntryPairs(new_ids) = staged_pairs

\* an apply-staged action pruned the pair of an updated row and kept another
C32_Witness ==
  /\ last.op = "do_update"
  /\ last.status = "completed"
  /\ staged_pairs # {}
  /\ \E i \in DOMAIN last.rows :
       /\ last.rows[i].outcome = "Updated"
       /\ last.rows[i].pair \notin staged_pairs

\* the last action ended with a reload_all whose load succeeded: the initial
\* load, the Reload button, or the reload closing a completed action
SuccessfulReload ==
  \/ last.op \in {"init", "reload"} /\ last.status = "loaded"
  \/ /\ last.op \in {"save", "do_update"}
     /\ \E k \in DOMAIN last.log : last.log[k] = Event("reload", 0, 1)

(***************************************************************************)
(* C33: after every successful reload, the one closing save-edits or       *)
(* apply-staged included, the checked set and the pending edits are empty. *)
(***************************************************************************)
C33_ReloadClearsCheckedAndEdits ==
  SuccessfulReload => (checked = {} /\ pending_edits = << >>)

\* a save of checked, edited rows completed and its closing reload succeeded
C33_Witness ==
  /\ last.op = "save"
  /\ last.status = "completed"
  /\ EventsAt("update", 1) # {}
  /\ EventsAt("reload", 0) # {}
  /\ SuccessfulReload

\* every Staged Entry has its row of widgets, and the row is ticked
AllStagedSelected ==
  /\ new_ids # << >>
  /\ Len(new_widgets) = Len(new_ids)
  /\ \A i \in DOMAIN new_ids :
       /\ new_widgets[i].selected
       /\ << new_widgets[i].gas, new_widgets[i].pres >> = PairOf(new_ids[i])

\* no store operation of the action that leads to the next state failed: the
\* connection was opened, there was no error dialog, and the connection was
\* not left by an exception
NoOperationFailed ==
  /\ \E k \in DOMAIN last'.log : last'.log[k].ev = "connect"
  /\ \A k \in DOMAIN last'.log :
       /\ last'.log[k].ev # "error"
       /\ last'.log[k] # Event("exit", 0, 0)

\* the user answered "skip" to no prompt of that action
NeverSkipped ==
  \A k \in DOMAIN last'.log :
    last'.log[k].ev = "ask" => last'.log[k].arg = 1

(***************************************************************************)
(* C34: an apply-staged action with every staged row selected, in which no *)
(* store operation fails and the user never answers "skip", completes and  *)
(* leaves the Staging Registry empty, and the rows it updated and inserted *)
(* number as many as the staged rows.                                      *)
(***************************************************************************)
C34_CleanApplyEmptiesRegistry ==
  [][(/\ last'.op = "do_update"
      /\ AllStagedSelected
      /\ NoOperationFailed
      /\ NeverSkipped) =>
       /\ last'.status = "completed"
       /\ new_ids' = << >>
       /\ staged_pairs' = {}
       /\ Cardinality({i \in DOMAIN last'.rows :
                         last'.rows[i].outcome \in {"Updated", "Inserted"}})
            = Len(new_ids)]_vars

\* a clean action over two staged rows updated one and inserted the other
\* and emptied the registry
C34_Witness ==
  /\ last.op = "do_update"
  /\ last.status = "completed"
  /\ Len(last.rows) = 2
  /\ {last.rows[i].outcome : i \in DOMAIN last.rows} = {"Updated", "Inserted"}
  /\ new_ids = << >>
  /\ staged_pairs = {}
====
